---- MODULE Spec2Model ----
(***************************************************************************)
(* The turn-based game lifecycle controller of the GAMENIGHT SDK (class    *)
(* Game): setup, ready-up, the round/turn loop and the end sequence.       *)
(*                                                                         *)
(* A hook of the rule set that returns a promise is a suspension point:    *)
(* the call is recorded in `pending` together with the catch handlers that *)
(* are chained behind it, and a later step settles it.  Between the call   *)
(* and its settlement any other entry point of the game may run, as on the *)
(* JavaScript event loop.                                                  *)
(***************************************************************************)
EXTENDS Integers, Sequences, FiniteSets, TLC

\* ------------------------------------------------------------------ bounds
MaxMoves == 2          \* moves recorded in one behaviour
MaxPending == 2        \* hook promises in flight at the same time
MaxRoundNum == 2       \* highest round number explored
MaxMovesRestart == 3   \* moves recorded in one behaviour of SpecRestart
MaxShuffleLen == 3     \* longest array handed to shuffle on its own

\* ------------------------------------------------------------ value domains
Ids == {"p1", "p2", "ghost"}            \* "ghost" names nobody in the room
Rosters == {<<"p1">>, <<"p1", "p2">>}   \* room.players when the game is built
MaxRoundsValues == {0, 1}            \* 0 stands for null (no limit)
SettingsValues == {"readyUpFalse", "readyUpZero", "empty", "undefined"}
Accepted == {"accepted"}                \* what handleMove resolves with (not the move sent)
\* values handleEnd resolves with: two results, the number 0 (a value that is
\* stored but falsy, as '', false and null are), and undefined (with nothing)
Results == {"r1", "r2", "0", "undefined"}
WinPayload == "win"                     \* a rejection that is not an Error
ErrorPayload == "Error"                 \* a rejection that is an Error
Rejections == {WinPayload, ErrorPayload}
Reasons == {"illegal move", "not now"}   \* reasons a rule set rejects with
Unset == "undefined"                    \* a field that was never assigned
Falsy == {Unset, "0"}                   \* the values of endResults that if(...) takes as false
NotGiven == -1                          \* a numeric setting that is absent
DefaultPlayerLimit == 16                \* settings.player_limit of a new Room
PlaylistLimit == 10                     \* games a Playlist takes
Overflow == MaxRoundNum + 1             \* a round number beyond the explored range

ENDED == "Game has ended."
NOT_STARTED == "Game has not started."
NOT_ALLOWED == "You are not allowed to send that right now."

VARIABLES
    hooks,        \* which optional hooks the concrete game defines
    roomPlayers,  \* room.players (ids)
    inited,       \* init() has been called
    players,      \* game.players: sequence of [_id, ready]
    settings,     \* game.settings (the readyUp flag)
    started,      \* game.started
    moves,        \* game.moves
    round,        \* game.round
    turn,         \* game.turn
    maxRounds,    \* game.maxRounds
    playerOrder,  \* game.playerOrder
    endResults,   \* game.endResults
    endEmits,     \* how often 'game/end' was broadcast and 'end' emitted
    pending,      \* hook promises not settled yet
    resolved,     \* the envelopes playerMove's promises resolved to, in order
    room,         \* the Room: its players (ids) and its settings
    playlist,     \* room.playlist: games and index
    served        \* what the calls of playlist.next() returned, in order

\* the state of the Room and its Playlist; the Game only reads room.players
\* when it is constructed (roomPlayers)
roomVars == <<room, playlist, served>>

vars == <<hooks, roomPlayers, inited, players, settings, started, moves, round,
          turn, maxRounds, playerOrder, endResults, endEmits, pending, resolved,
          roomVars>>

gameVars == <<players, settings, started, moves, round, turn, maxRounds,
              playerOrder, endResults, endEmits>>

\* --------------------------------------------------------------- helpers
\* who: the player of a move or ready-up; arg: the payload handed to the hook;
\* num: the number of the round handed to handleRoundStart; chain: the catch
\* handlers behind the promise, nearest first ("T": nextTurn's, "R": nextRound's)
Hook(name, who, arg, num, chain) ==
    [hook |-> name, who |-> who, arg |-> arg, num |-> num, chain |-> chain]

RemoveAt(seq, i) == [k \in 1..(Len(seq) - 1) |-> IF k < i THEN seq[k] ELSE seq[k + 1]]

SeqMap(Op(_), seq) == [k \in 1..Len(seq) |-> Op(seq[k])]

IdOf(p) == p._id

PlayerIds == SeqMap(IdOf, players)

createPlayer(id) == [_id |-> id, ready |-> FALSE]

\* findPlayer: the index of the first player with that id, 0 when there is none
findPlayer(ps, id) ==
    IF \E k \in 1..Len(ps) : ps[k]._id = id
    THEN CHOOSE k \in 1..Len(ps) :
            /\ ps[k]._id = id
            /\ \A j \in 1..(k - 1) : ps[j]._id # id
    ELSE 0

\* playerOrder[k - 1] of the source, undefined beyond the end of the array
OrderIn(order, k) == IF k \in 1..Len(order) THEN order[k] ELSE Unset

OrderAt(k) == OrderIn(playerOrder, k)

\* The part of the state the synchronous control flow reads and writes, with
\* threw: a RangeError (endless recursion) left the run,
\* over: the run went beyond MaxRoundNum.
Ctl == [players |-> players, started |-> started, round |-> round, turn |-> turn,
        pending |-> pending, threw |-> FALSE, over |-> FALSE,
        playerOrder |-> playerOrder]

AddPending(s, h) == [s EXCEPT !.pending = Append(@, h)]

\* ------------------------------------------------- synchronous control flow
RECURSIVE startRound(_, _, _, _), startTurn(_, _, _, _), nextTurn(_, _, _, _, _)
RECURSIVE nextRound(_, _, _), executeNextTurn(_, _, _, _), executeNextRound(_, _, _)

onEnd(s, payload, chain) == AddPending(s, Hook("handleEnd", "", payload, 0, chain))

\* n: rounds this run has already passed through without finding a player
startRound(s, r, chain, n) ==
    LET s1 == [s EXCEPT !.round = [number |-> r, extra |-> "none"]]
    IN  IF hooks.handleRoundStart
        THEN AddPending(s1, Hook("handleRoundStart", "", "", r, chain))
        ELSE startTurn(s1, 1, chain, n + 1)

startTurn(s, k, chain, n) ==
    IF findPlayer(s.players, OrderIn(s.playerOrder, k)) = 0
    THEN nextTurn(s, TRUE, chain, n, k)
    ELSE [s EXCEPT !.turn =
             [number |-> k,
              player_id |-> s.players[findPlayer(s.players, OrderIn(s.playerOrder, k))]._id]]

\* skipped: the index startTurn found no player at (0 when called after a move)
nextTurn(s, restart, chain, n, skipped) ==
    IF ~restart /\ hooks.handleTurnEnd
    THEN AddPending(s, Hook("handleTurnEnd", "", "", 0, <<"T">> \o chain))
    ELSE executeNextTurn(s, chain, n, skipped)

executeNextTurn(s, chain, n, skipped) ==
    LET nextNum == s.turn.number + 1
    IN  IF nextNum > Len(s.playerOrder)
        THEN nextRound(s, chain, n)
        ELSE IF nextNum = skipped
             THEN [s EXCEPT !.threw = TRUE]   \* startTurn(nextNum) again, for ever
             ELSE startTurn(s, nextNum, chain, n)

nextRound(s, chain, n) ==
    IF hooks.handleRoundEnd
    THEN AddPending(s, Hook("handleRoundEnd", "", "", 0, <<"R">> \o chain))
    ELSE executeNextRound(s, chain, n)

\* executeNextRound without the comparison with maxRounds
executeNextRound_noLimit(s, chain, n) ==
    IF s.round.number + 1 > MaxRoundNum
    THEN [s EXCEPT !.over = TRUE]
    ELSE startRound(s, s.round.number + 1, chain, n)

executeNextRound(s, chain, n) ==
    LET nextNum == s.round.number + 1
    IN  IF maxRounds # 0 /\ nextNum > maxRounds
        THEN onEnd(s, Unset, chain)
        ELSE IF maxRounds = 0 /\ n >= 1
             \* a whole round was skipped with no hook to wait for: the next
             \* one is skipped alike, until the call stack is exhausted
             THEN [s EXCEPT !.threw = TRUE,
                            !.round = [number |-> Overflow, extra |-> "none"]]
             ELSE IF nextNum > MaxRoundNum
                  THEN [s EXCEPT !.over = TRUE]
                  ELSE startRound(s, nextNum, chain, n)

start(s) == startRound([s EXCEPT !.started = TRUE], 1, <<>>, 0)

\* The end of a callback: what it threw rejects the promise chained behind
\* it, and the nearest catch handler of chain is queued as a job of its own
\* ("thrown"); with no handler behind it the exception is lost
Settle(s, chain) ==
    IF ~s.threw THEN s
    ELSE IF chain = <<>> \/ s.over THEN [s EXCEPT !.threw = FALSE]
    ELSE AddPending([s EXCEPT !.threw = FALSE],
                    Hook("thrown", "", ErrorPayload, 0, chain))

\* A rejection with val reaching the nearest catch handler of chain: "R"
\* (nextRound's) starts the current round again, "T" (nextTurn's) ends the
\* game unless val is an Error; what the handler throws goes on to the next
RejectChain(s, chain, val) ==
    IF chain = <<>> \/ s.over
    THEN [s EXCEPT !.threw = FALSE]
    ELSE IF Head(chain) = "R"
         THEN Settle(startRound([s EXCEPT !.threw = FALSE], s.round.number,
                                Tail(chain), 0),
                     Tail(chain))
         ELSE IF val # ErrorPayload
              THEN onEnd([s EXCEPT !.threw = FALSE], val, <<>>)
              ELSE [s EXCEPT !.threw = FALSE]

\* no catch handler is queued: the job queue is empty of them, so that a call
\* from outside (a socket message, a timer) can run
NoJobQueued == \A i \in 1..Len(pending) : pending[i].hook # "thrown"

Commit(s) ==
    /\ ~s.over
    /\ players' = s.players
    /\ started' = s.started
    /\ round' = s.round
    /\ turn' = s.turn
    /\ pending' = s.pending

\* ------------------------------------------------------------------- Init
\* new Playlist()
PlaylistConstructed == playlist = [games |-> <<>>, index |-> -1] /\ served = <<>>

\* new Room(name, host, settings): the settings given are laid over the
\* defaults; game: room.game is set, endListener: Room.start has registered
\* its listener for 'end' on that game
RoomConstructed(given) ==
    room = [players |-> <<>>, game |-> FALSE, endListener |-> FALSE,
            privacy |-> IF given.privacy = Unset THEN "public" ELSE given.privacy,
            password |-> IF given.password = Unset THEN "null" ELSE given.password,
            player_limit |-> IF given.player_limit = NotGiven THEN DefaultPlayerLimit
                             ELSE given.player_limit]

NoSettings == [privacy |-> Unset, password |-> Unset, player_limit |-> NotGiven]

\* new Game(gameObj, room)
GameConstructed ==
    /\ hooks \in [setup : BOOLEAN, handleReadyUp : BOOLEAN, handleRoundStart : BOOLEAN,
                  handleRoundEnd : BOOLEAN, handleTurnEnd : BOOLEAN]
    /\ roomPlayers \in Rosters
    /\ maxRounds \in MaxRoundsValues
    /\ inited = FALSE
    /\ players = <<>>
    /\ settings = [readyUp |-> "true"]
    /\ started = FALSE
    /\ moves = <<>>
    /\ round = [number |-> 0, extra |-> "none"]
    /\ turn = [number |-> 0, player_id |-> Unset]
    /\ playerOrder = roomPlayers
    /\ endResults = Unset
    /\ endEmits = 0
    /\ pending = <<>>
    /\ resolved = <<>>

\* a game in a room that was built with the default settings
Init == GameConstructed /\ RoomConstructed(NoSettings) /\ PlaylistConstructed

\* ------------------------------------------------------------ setup, init
mergeSettings(g) ==
    IF g = "readyUpFalse" THEN [settings EXCEPT !.readyUp = "false"]
    ELSE IF g = "readyUpZero" THEN [settings EXCEPT !.readyUp = "0"]
    ELSE settings

\* executeSetup starting the game on any falsy readyUp (!settings.readyUp)
executeSetup_falsy(s, g) ==
    IF g \in {"readyUpFalse", "readyUpZero"} THEN start(s) ELSE s

\* executeSetup: settings are merged, and only readyUp === false starts the game
executeSetup(s, g) ==
    IF g = "readyUpFalse" THEN start(s) ELSE s

SetupReturns == SettingsValues \cup {"promise"}

\* init(): the player list is built, then setup (if any) is consulted;
\* g is what setup() returns
init(g) ==
    /\ ~inited
    /\ inited' = TRUE
    /\ LET s0 == [Ctl EXCEPT !.players = SeqMap(createPlayer, roomPlayers)]
       IN  IF hooks.setup
           THEN IF g = "promise"
                THEN /\ Commit(AddPending(s0, Hook("setup", "", "", 0, <<>>)))
                     /\ settings' = settings
                ELSE IF g = "undefined"
                     \* typeof gameSetup.then of undefined: a TypeError
                     THEN /\ Commit(s0)
                          /\ settings' = settings
                     ELSE /\ Commit(Settle(executeSetup(s0, g), <<>>))
                          /\ settings' = mergeSettings(g)
           ELSE /\ g = "empty"
                /\ Commit(Settle(start(s0), <<>>))
                /\ settings' = settings
    /\ UNCHANGED <<roomVars, hooks, roomPlayers, moves, maxRounds, playerOrder, endResults,
                   endEmits, resolved>>

\* the promise setup() returned resolves with settings g
SetupResolve(i, g) ==
    /\ pending[i].hook = "setup"
    /\ LET s0 == [Ctl EXCEPT !.pending = RemoveAt(pending, i)]
       IN  /\ Commit(Settle(executeSetup(s0, g), <<>>))
           /\ settings' = mergeSettings(g)
    /\ UNCHANGED <<roomVars, hooks, roomPlayers, inited, moves, maxRounds, playerOrder,
                   endResults, endEmits, resolved>>

\* ---------------------------------------------------------------- ready-up
markReady(ps, id) ==
    [k \in 1..Len(ps) |-> IF k = findPlayer(ps, id) THEN [ps[k] EXCEPT !.ready = TRUE] ELSE ps[k]]

\* the check of executeReady satisfied by the first ready player
allReady_some(ps) == \E k \in 1..Len(ps) : ps[k].ready

allReady(ps) == \A k \in 1..Len(ps) : ps[k].ready

executeReady(s, id) ==
    LET s1 == [s EXCEPT !.players = markReady(s.players, id)]
    IN  IF allReady(s1.players) THEN start(s1) ELSE s1

ReadyReturns == {"promise", "truthy", "falsy", "undefined"}

\* readyUp without the test of the player's ready flag
readyUpResult_noReadyCheck(id, h) ==
    IF started THEN "false"
    ELSE IF findPlayer(players, id) = 0 THEN "TypeError"
    ELSE IF hooks.handleReadyUp /\ h = "undefined" THEN "TypeError"
    ELSE IF hooks.handleReadyUp /\ h \in {"promise", "falsy"} THEN h
    ELSE IF executeReady(Ctl, id).threw THEN "RangeError"
    ELSE IF hooks.handleReadyUp THEN h ELSE "true"

\* what readyUp(id, payload) gives its caller when handleReadyUp (if defined)
\* returns h; executeReady run in the call itself may start the game, and
\* a start that finds no player to open a turn for ends in a RangeError
readyUpResult(id, h) ==
    IF started THEN "false"
    ELSE IF findPlayer(players, id) = 0 THEN "TypeError"   \* player.ready of undefined
    ELSE IF players[findPlayer(players, id)].ready THEN "false"
    ELSE IF hooks.handleReadyUp /\ h = "undefined" THEN "TypeError"  \* typeof handle.then
    ELSE IF hooks.handleReadyUp /\ h \in {"promise", "falsy"} THEN h
    ELSE IF executeReady(Ctl, id).threw THEN "RangeError"
    ELSE IF hooks.handleReadyUp THEN h ELSE "true"

\* readyUp(player_id, payload)
readyUp(id, h) ==
    /\ inited /\ NoJobQueued
    /\ LET res == readyUpResult(id, h)
       IN  IF res \in {"true", "truthy", "RangeError"}
           THEN Commit(Settle(executeReady(Ctl, id), <<>>))
           ELSE IF res = "promise"
           THEN /\ Len(pending) < MaxPending
                /\ Commit(AddPending(Ctl, Hook("handleReadyUp", id, "", 0, <<>>)))
           ELSE UNCHANGED <<players, started, round, turn, pending>>
    /\ UNCHANGED <<roomVars, hooks, roomPlayers, inited, settings, moves, maxRounds, playerOrder,
                   endResults, endEmits, resolved>>

\* the promise handleReadyUp returned resolves: executeReady, then the payload
ReadyResolve(i) ==
    /\ pending[i].hook = "handleReadyUp"
    /\ LET s0 == [Ctl EXCEPT !.pending = RemoveAt(pending, i)]
       IN  Commit(Settle(executeReady(s0, pending[i].who), <<>>))
    /\ UNCHANGED <<roomVars, hooks, roomPlayers, inited, settings, moves, maxRounds, playerOrder,
                   endResults, endEmits, resolved>>

\* what the promise readyUp returned rejects with when handleReadyUp rejects
\* with reason r: handle.then(...) has no rejection handler
readyUpRejection(r) == r

\* the promise handleReadyUp returned rejects: the reason goes to the caller
ReadyReject(i) ==
    /\ pending[i].hook = "handleReadyUp"
    /\ pending' = RemoveAt(pending, i)
    /\ UNCHANGED <<roomVars, hooks, roomPlayers, inited, gameVars, resolved>>

\* ------------------------------------------------------------------- moves
PendingMoves == Cardinality({i \in 1..Len(pending) : pending[i].hook = "handleMove"})

\* playerMove without the comparison of the player with turn.player_id
playerMoveResult_anyPlayer(p) ==
    IF endResults \notin Falsy THEN ENDED
    ELSE IF turn.number = 0 THEN NOT_STARTED
    ELSE "handleMove"

\* playerMove without the check of turn.number
playerMoveResult_noStartCheck(p) ==
    IF endResults \notin Falsy THEN ENDED
    ELSE IF p # turn.player_id THEN NOT_ALLOWED
    ELSE "handleMove"

\* what playerMove(player, move) does for the player with _id p: the reason it
\* rejects with, or "handleMove" when the move is handed to the rule set
playerMoveResult(p) ==
    IF endResults \notin Falsy THEN ENDED
    ELSE IF turn.number = 0 THEN NOT_STARTED
    ELSE IF p # turn.player_id THEN NOT_ALLOWED
    ELSE "handleMove"

\* playerMove(player, move) in a behaviour of at most bound moves
playerMoveUpTo(p, bound) ==
    /\ NoJobQueued
    /\ IF playerMoveResult(p) = "handleMove"
       THEN /\ Len(pending) < MaxPending
            /\ Len(moves) + PendingMoves < bound
            /\ pending' = Append(pending, Hook("handleMove", p, "move", 0, <<>>))
       ELSE pending' = pending
    /\ UNCHANGED <<roomVars, hooks, roomPlayers, inited, gameVars, resolved>>

\* playerMove(player, move)
playerMove(p) == playerMoveUpTo(p, MaxMoves)

\* the record built from the move that was sent instead of the accepted one
Envelope_sentMove(p, v) ==
    [player_id |-> p, round |-> round.number, turn |-> turn.number, payload |-> "move"]

Envelope(p, v) ==
    [player_id |-> p, round |-> round.number, turn |-> turn.number, payload |-> v]

\* handleMove resolving with the record written over the last entry of moves
HandleMoveResolve_overwrite(i, v) ==
    /\ pending[i].hook = "handleMove"
    /\ LET payload == Envelope(pending[i].who, v)
           s0 == [Ctl EXCEPT !.pending = RemoveAt(pending, i)]
           s1 == nextTurn(s0, FALSE, <<>>, 0, 0)
       IN  /\ moves' = IF moves = <<>> THEN <<payload>>
                        ELSE [moves EXCEPT ![Len(moves)] = payload]
           /\ Commit(Settle(s1, <<>>))
           /\ resolved' = IF s1.threw THEN resolved ELSE Append(resolved, payload)
    /\ UNCHANGED <<roomVars, hooks, roomPlayers, inited, settings, maxRounds, playerOrder,
                   endResults, endEmits>>

\* handleMove resolves with v: the move is recorded, then nextTurn(); the
\* promise of playerMove resolves to the record unless nextTurn threw
HandleMoveResolve(i, v) ==
    /\ pending[i].hook = "handleMove"
    /\ LET payload == Envelope(pending[i].who, v)
           s0 == [Ctl EXCEPT !.pending = RemoveAt(pending, i)]
           s1 == nextTurn(s0, FALSE, <<>>, 0, 0)
       IN  /\ moves' = Append(moves, payload)
           /\ Commit(Settle(s1, <<>>))
           /\ resolved' = IF s1.threw THEN resolved ELSE Append(resolved, payload)
    /\ UNCHANGED <<roomVars, hooks, roomPlayers, inited, settings, maxRounds, playerOrder,
                   endResults, endEmits>>

\* a rejection of handleMove after which the move is recorded all the same
HandleMoveReject_recorded(i) == HandleMoveResolve(i, "accepted")

\* what the promise of playerMove rejects with when handleMove rejects with
\* reason r: .catch(reject) hands the reason on
playerMoveRejection(r) == r

\* handleMove rejects: the reason goes to the caller
HandleMoveReject(i) ==
    /\ pending[i].hook = "handleMove"
    /\ pending' = RemoveAt(pending, i)
    /\ UNCHANGED <<roomVars, hooks, roomPlayers, inited, gameVars, resolved>>

\* ------------------------------------------------------- turn and round hooks
Internal(s) ==
    /\ Commit(s)
    /\ UNCHANGED <<roomVars, hooks, roomPlayers, inited, settings, moves, maxRounds, playerOrder,
                   endResults, endEmits, resolved>>

\* handleTurnEnd resolves: executeNextTurn()
TurnEndResolve(i) ==
    /\ pending[i].hook = "handleTurnEnd"
    /\ LET s0 == [Ctl EXCEPT !.pending = RemoveAt(pending, i)]
       IN  Internal(Settle(executeNextTurn(s0, pending[i].chain, 0, 0), pending[i].chain))

\* a rejection of handleTurnEnd handled like its resolution
TurnEndReject_advance(i, val) == TurnEndResolve(i)

\* handleTurnEnd rejects with val: onEnd(val) unless val is an Error
TurnEndReject(i, val) ==
    /\ pending[i].hook = "handleTurnEnd"
    /\ LET s0 == [Ctl EXCEPT !.pending = RemoveAt(pending, i)]
       IN  Internal(RejectChain(s0, pending[i].chain, val))

\* handleRoundEnd resolves: executeNextRound()
RoundEndResolve(i) ==
    /\ pending[i].hook = "handleRoundEnd"
    /\ LET s0 == [Ctl EXCEPT !.pending = RemoveAt(pending, i)]
       IN  Internal(Settle(executeNextRound(s0, pending[i].chain, 0), pending[i].chain))

\* a rejection of handleRoundEnd handled like its resolution
RoundEndReject_next(i, val) == RoundEndResolve(i)

\* handleRoundEnd rejects: startRound(this.round.number)
RoundEndReject(i, val) ==
    /\ pending[i].hook = "handleRoundEnd"
    /\ LET s0 == [Ctl EXCEPT !.pending = RemoveAt(pending, i)]
       IN  Internal(RejectChain(s0, pending[i].chain, val))

\* handleRoundStart resolves with the round it was given, enriched:
\* this.round = round; this.startTurn(1), whose result is not returned
RoundStartResolve(i) ==
    /\ pending[i].hook = "handleRoundStart"
    /\ LET s0 == [Ctl EXCEPT !.pending = RemoveAt(pending, i),
                             !.round = [number |-> pending[i].num, extra |-> "custom"]]
       IN  Internal(Settle(startTurn(s0, 1, <<>>, 0), pending[i].chain))

\* handleRoundStart rejects: the reason goes to the handlers behind startRound
RoundStartReject(i, val) ==
    /\ pending[i].hook = "handleRoundStart"
    /\ LET s0 == [Ctl EXCEPT !.pending = RemoveAt(pending, i)]
       IN  Internal(RejectChain(s0, pending[i].chain, val))

\* the catch handler queued behind a callback that threw runs, in a job of
\* its own: callbacks of other settled promises may have run in between
CatchThrown(i) ==
    /\ pending[i].hook = "thrown"
    /\ LET s0 == [Ctl EXCEPT !.pending = RemoveAt(pending, i)]
       IN  Internal(RejectChain(s0, pending[i].chain, pending[i].arg))

\* -------------------------------------------------------------------- end
\* handleEnd resolves with results: endResults is set, the end is announced;
\* the listener of Room.start (if any) sets the timer that starts the next game
EndResolve(i, results) ==
    /\ pending[i].hook = "handleEnd"
    /\ pending' = IF room.endListener
                  THEN Append(RemoveAt(pending, i), Hook("resultsTimeout", "", "", 0, <<>>))
                  ELSE RemoveAt(pending, i)
    /\ endResults' = results
    /\ endEmits' = endEmits + 1
    /\ UNCHANGED <<roomVars, hooks, roomPlayers, inited, players, settings, started, moves,
                   round, turn, maxRounds, playerOrder, resolved>>

\* handleEnd rejects: the reason goes to the handlers behind onEnd
EndReject(i, val) ==
    /\ pending[i].hook = "handleEnd"
    /\ LET s0 == [Ctl EXCEPT !.pending = RemoveAt(pending, i)]
       IN  Internal(RejectChain(s0, pending[i].chain, val))

\* ------------------------------------------------------------- turn order
\* the swap of shuffle writing one side only
Swap_copy(arr, a, b) ==
    [k \in 1..Len(arr) |-> IF k = a THEN arr[b] ELSE arr[k]]

Swap(arr, a, b) ==
    [k \in 1..Len(arr) |-> IF k = a THEN arr[b] ELSE IF k = b THEN arr[a] ELSE arr[k]]

\* shuffle: for i = length down to 1, swap arr[i - 1] with arr[j], j in 0..i-1;
\* the set of arrays it can return
RECURSIVE shuffleFrom(_, _)
shuffleFrom(arr, i) ==
    IF i = 0 THEN {arr}
    ELSE UNION {shuffleFrom(Swap(arr, i, j + 1), i - 1) : j \in 0..(i - 1)}

shuffle(arr) == shuffleFrom(arr, Len(arr))

RECURSIVE SeqsUpTo(_, _)
SeqsUpTo(S, n) ==
    IF n = 0 THEN {<<>>}
    ELSE SeqsUpTo(S, n - 1) \cup {Append(q, x) : q \in SeqsUpTo(S, n - 1), x \in S}

IsPermutationOf(order, ids) ==
    /\ Len(order) = Len(ids)
    /\ \A k \in 1..Len(ids) : \E j \in 1..Len(order) : order[j] = ids[k]

\* setPlayerTurnOrder that keeps the roster order whatever array it is given
setPlayerTurnOrder_roster(order) ==
    /\ inited /\ NoJobQueued
    /\ playerOrder' = SeqMap(IdOf, players)
    /\ UNCHANGED <<roomVars, hooks, roomPlayers, inited, players, settings, started, moves,
                   round, turn, maxRounds, endResults, endEmits, pending, resolved>>

\* setPlayerTurnOrder(order) with an array of ids
setPlayerTurnOrder(order) ==
    /\ inited /\ NoJobQueued
    /\ playerOrder' = order
    /\ UNCHANGED <<roomVars, hooks, roomPlayers, inited, players, settings, started, moves, round,
                   turn, maxRounds, endResults, endEmits, pending, resolved>>

\* setPlayerTurnOrder(PLAYER_ORDER.RANDOM)
setPlayerTurnOrderRandom(shuffled) ==
    /\ inited /\ NoJobQueued
    /\ shuffled \in shuffle(players)
    /\ playerOrder' = SeqMap(IdOf, shuffled)
    /\ UNCHANGED <<roomVars, hooks, roomPlayers, inited, players, settings, started, moves, round,
                   turn, maxRounds, endResults, endEmits, pending, resolved>>

\* setPlayerTurnOrder(anything else)
setPlayerTurnOrderDefault ==
    /\ inited /\ NoJobQueued
    /\ playerOrder' = SeqMap(IdOf, players)
    /\ UNCHANGED <<roomVars, hooks, roomPlayers, inited, players, settings, started, moves, round,
                   turn, maxRounds, endResults, endEmits, pending, resolved>>

\* ---------------------------------------------------------- specifications
\* the orders the caller is responsible for: permutations of the players
ValidOrders == {o \in SeqsUpTo(Ids, 2) : IsPermutationOf(o, PlayerIds)}

\* arrays the caller should not pass: empty, or naming somebody who is no player
InvalidOrders == {<<>>, <<"ghost", "p1">>, <<"p1", "ghost">>}

AnyOrders == ValidOrders \cup InvalidOrders

\* handleReadyUp's return value matters only when readyUp consults the hook
HookReturns(id) ==
    IF readyUpResult(id, "promise") = "promise" THEN ReadyReturns ELSE {"truthy"}

Common ==
    \/ \E g \in SetupReturns : init(g)
    \/ \E i \in 1..Len(pending), g \in SettingsValues : SetupResolve(i, g)
    \/ \E id \in Ids : \E h \in HookReturns(id) : readyUp(id, h)
    \/ \E i \in 1..Len(pending) : ReadyResolve(i)
    \/ \E i \in 1..Len(pending) : ReadyReject(i)
    \/ \E p \in Ids : playerMove(p)
    \/ \E i \in 1..Len(pending), v \in Accepted : HandleMoveResolve(i, v)
    \/ \E i \in 1..Len(pending) : HandleMoveReject(i)
    \/ \E i \in 1..Len(pending) : TurnEndResolve(i)
    \/ \E i \in 1..Len(pending), val \in Rejections : TurnEndReject(i, val)
    \/ \E i \in 1..Len(pending) : RoundEndResolve(i)
    \/ \E i \in 1..Len(pending), val \in Rejections : RoundEndReject(i, val)
    \/ \E i \in 1..Len(pending) : RoundStartResolve(i)
    \/ \E i \in 1..Len(pending), val \in Rejections : RoundStartReject(i, val)
    \/ \E i \in 1..Len(pending), r \in Results : EndResolve(i, r)
    \/ \E i \in 1..Len(pending), val \in Rejections : EndReject(i, val)
    \/ \E sh \in shuffle(players) : setPlayerTurnOrderRandom(sh)
    \/ setPlayerTurnOrderDefault

Next ==
    \/ Common
    \/ \E order \in ValidOrders : setPlayerTurnOrder(order)

Spec == Init /\ [][Next]_vars

NextAnyOrder ==
    \/ Common
    \/ \E order \in AnyOrders : setPlayerTurnOrder(order)
    \/ \E i \in 1..Len(pending) : CatchThrown(i)

\* a one-player room, whose game may pass any order
InitAnyOrder == Init /\ roomPlayers = <<"p1">>

SpecAnyOrder == InitAnyOrder /\ [][NextAnyOrder]_vars

\* A game of two players without setup and ready-up hooks, which starts in
\* init and keeps the order of the room: the round loop with its restarts,
\* over games of up to MaxMovesRestart moves
InitRestart ==
    /\ Init
    /\ roomPlayers = <<"p1", "p2">>
    /\ ~hooks.setup
    /\ ~hooks.handleReadyUp

NextRestart ==
    \/ init("empty")
    \/ \E p \in Ids : playerMoveUpTo(p, MaxMovesRestart)
    \/ \E i \in 1..Len(pending), v \in Accepted : HandleMoveResolve(i, v)
    \/ \E i \in 1..Len(pending) : HandleMoveReject(i)
    \/ \E i \in 1..Len(pending) : TurnEndResolve(i)
    \/ \E i \in 1..Len(pending), val \in Rejections : TurnEndReject(i, val)
    \/ \E i \in 1..Len(pending) : RoundEndResolve(i)
    \/ \E i \in 1..Len(pending), val \in Rejections : RoundEndReject(i, val)
    \/ \E i \in 1..Len(pending) : RoundStartResolve(i)
    \/ \E i \in 1..Len(pending), val \in Rejections : RoundStartReject(i, val)
    \/ \E i \in 1..Len(pending), r \in Results : EndResolve(i, r)
    \/ \E i \in 1..Len(pending), val \in Rejections : EndReject(i, val)

SpecRestart == InitRestart /\ [][NextRestart]_vars

\* ---------------------------------------------------------------- Playlist
MaxNextCalls == 3                  \* calls of next() in one behaviour
Games == {"g1", "g2"}              \* the game details handed to add

\* what add(game) returns
addResult == IF Len(playlist.games) = PlaylistLimit THEN "false" ELSE "true"

\* Playlist.add
add(game) ==
    /\ playlist' = IF Len(playlist.games) = PlaylistLimit THEN playlist
                   ELSE [playlist EXCEPT !.games = Append(@, game)]
    /\ UNCHANGED <<room, served, gameVars, hooks, roomPlayers, inited, pending, resolved>>

\* what next() returns: index is the 0-based index after the increment, and an
\* index beyond the array reads undefined
nextResult ==
    LET index == playlist.index + 1
    IN  IF index = Len(playlist.games) THEN "false"
        ELSE IF index + 1 \in 1..Len(playlist.games) THEN playlist.games[index + 1]
        ELSE Unset

\* Playlist.next; served lists what the calls returned
next ==
    /\ Len(served) < MaxNextCalls
    /\ playlist' = [playlist EXCEPT !.index = @ + 1]
    /\ served' = Append(served, nextResult)
    /\ UNCHANGED <<room, gameVars, hooks, roomPlayers, inited, pending, resolved>>

\* a playlist on its own: the room and the game stay as constructed
InitPlaylist ==
    /\ GameConstructed
    /\ roomPlayers = <<"p1">> /\ maxRounds = 0
    /\ hooks = [setup |-> FALSE, handleReadyUp |-> FALSE, handleRoundStart |-> FALSE,
                handleRoundEnd |-> FALSE, handleTurnEnd |-> FALSE]
    /\ RoomConstructed(NoSettings)
    /\ PlaylistConstructed

NextPlaylist ==
    \/ \E game \in Games : add(game)
    \/ next

SpecPlaylist == InitPlaylist /\ [][NextPlaylist]_vars

\* --------------------------------------------------------------------- Room
FULL == "Room is full."
PASSWORD_REQUIRED == "Room is private. Password required to enter."
INCORRECT_PASSWORD == "Incorrect password."
NOT_IN_ROOM == "Not in room."

MaxLimit == 2                              \* largest player_limit given explicitly
MaxRoomGames == 1                          \* games added to the playlist of a room
Passwords == {"null", "secret", "hunter2"} \* "null": no password
LimitValues == 0..MaxLimit

\* Array.prototype.find with the test p => p._id == id: the first player with
\* that id, else undefined
find(seq, id) ==
    IF \E k \in 1..Len(seq) : seq[k] = id
    THEN seq[CHOOSE k \in 1..Len(seq) :
                seq[k] = id /\ \A j \in 1..(k - 1) : seq[j] # id]
    ELSE Unset

\* typeof x === 'number': a player object (named by its id) and undefined are
\* the values that are not numbers
IsNumber(x) == x \notin (Ids \cup {Unset})

\* x === n for a number n: false for a player object and for undefined
StrictEquals(x, n) == IsNumber(x) /\ x = n

\* the integer splice makes of its start argument: a number is itself, a
\* player object or undefined becomes NaN and then 0
ToInteger(x) == IF IsNumber(x) THEN x ELSE 0

\* Array.prototype.splice(at, 1): the array without the element at index at
\* (0-based, counted from the end when negative)
splice(seq, at) ==
    LET first == IF at < 0 THEN IF Len(seq) + at < 0 THEN 0 ELSE Len(seq) + at
                 ELSE IF at > Len(seq) THEN Len(seq) ELSE at
    IN  [k \in 1..(IF first < Len(seq) THEN Len(seq) - 1 ELSE Len(seq)) |->
            IF k <= first THEN seq[k] ELSE seq[k + 1]]

\* what addPlayer(player, socket, password) settles with for the player p
addPlayerResult(p, password) ==
    IF Len(room.players) = room.player_limit THEN FULL
    ELSE IF room.privacy = "private" /\ password = "null" THEN PASSWORD_REQUIRED
    ELSE IF room.privacy = "private" /\ room.password # password THEN INCORRECT_PASSWORD
    ELSE "room"

\* Room.addPlayer
addPlayer(p, password) ==
    /\ LET exists == find(room.players, p)
       IN  room' = IF addPlayerResult(p, password) = "room" /\ exists = Unset
                   THEN [room EXCEPT !.players = Append(@, p)]
                   ELSE room
    /\ UNCHANGED <<gameVars, hooks, roomPlayers, inited, pending, resolved, playlist, served>>

\* what removePlayer(player, socket) settles with: index is what find returns,
\* a player or undefined, and never -1
removePlayerResult(p) ==
    LET index == find(room.players, p)
    IN  IF StrictEquals(index, -1) THEN NOT_IN_ROOM ELSE "false"

\* Room.removePlayer
removePlayer(p) ==
    /\ LET index == find(room.players, p)
       IN  room' = IF StrictEquals(index, -1) THEN room
                   ELSE [room EXCEPT !.players = splice(@, ToInteger(index))]
    /\ UNCHANGED <<gameVars, hooks, roomPlayers, inited, pending, resolved, playlist, served>>

\* the settings objects handed to updateSettings; an absent field is Unset,
\* an absent player_limit NotGiven
SettingsUpdates ==
    [privacy : {Unset, "public", "private"}, password : {Unset, "secret"},
     player_limit : {NotGiven} \cup LimitValues]

\* Room.updateSettings
updateSettings(s) ==
    /\ LET privacy == IF s.privacy # Unset /\ s.privacy # room.privacy
                      THEN s.privacy ELSE room.privacy
       IN  room' = [room EXCEPT
                       !.privacy = privacy,
                       !.password = IF s.password # Unset /\ privacy = "private"
                                    THEN s.password ELSE @,
                       !.player_limit = IF s.player_limit # NotGiven /\ s.player_limit # 0
                                        THEN s.player_limit ELSE @]
    /\ UNCHANGED <<gameVars, hooks, roomPlayers, inited, pending, resolved, playlist, served>>

\* Room.addGame
addGame(game) == add(game)

Loaders == {"gameLoader", "undefined"}   \* undefined: start() called with no argument

\* the control record of the game Room.start constructs: new Game(plGame, this)
\* followed by the first line of init(); the timers set earlier stay
NewGame(rest) ==
    [players |-> SeqMap(createPlayer, room.players), started |-> FALSE,
     round |-> [number |-> 0, extra |-> "none"],
     turn |-> [number |-> 0, player_id |-> Unset],
     pending |-> rest, threw |-> FALSE, over |-> FALSE,
     playerOrder |-> room.players]

\* init() of the new game up to the exception that leaves it (if any); g is
\* what setup() returns
NewGameInit(rest, g) ==
    IF hooks.setup
    THEN IF g = "promise" THEN AddPending(NewGame(rest), Hook("setup", "", "", 0, <<>>))
         ELSE IF g = "undefined" THEN [NewGame(rest) EXCEPT !.threw = TRUE]
         ELSE executeSetup(NewGame(rest), g)
    ELSE start(NewGame(rest))

\* Room.start(gameLoader) with rest the promises and timers that stay pending:
\* playlist.next() is called; with no game left it returns false, with no
\* loader given gameLoader(...) is a TypeError; otherwise the game is built
\* from the room's players and initialised, and only when init() returned is
\* the listener for 'end' registered. The game before must have no promise
\* in flight: the model holds the fields of room.game only.
Room_startWith(gameLoader, g, rest) ==
    /\ NoJobQueued
    /\ Len(served) < MaxNextCalls
    /\ playlist' = [playlist EXCEPT !.index = @ + 1]
    /\ served' = Append(served, nextResult)
    /\ IF nextResult \in {"false", Unset} \/ gameLoader = "undefined"
       THEN /\ pending' = rest
            /\ UNCHANGED <<room, gameVars, roomPlayers, inited, resolved>>
       ELSE /\ \A i \in 1..Len(rest) : rest[i].hook = "resultsTimeout"
            /\ hooks.setup \/ g = "empty"
            /\ Commit(Settle(NewGameInit(rest, g), <<>>))
            /\ room' = [room EXCEPT !.game = TRUE,
                                    !.endListener = ~NewGameInit(rest, g).threw]
            /\ roomPlayers' = room.players
            /\ playerOrder' = room.players
            /\ inited' = TRUE
            /\ settings' = [readyUp |-> IF ~hooks.setup THEN "true"
                                        ELSE IF g = "readyUpFalse" THEN "false"
                                        ELSE IF g = "readyUpZero" THEN "0" ELSE "true"]
            /\ moves' = <<>> /\ resolved' = <<>>
            /\ endResults' = Unset /\ endEmits' = 0
            /\ maxRounds' = maxRounds
    /\ UNCHANGED hooks

\* Room.start(gameLoader) called by the platform
Room_start(gameLoader, g) == Room_startWith(gameLoader, g, pending)

\* the timer set by the 'end' listener fires: this.start() with no loader
ResultsTimeout(i) ==
    /\ pending[i].hook = "resultsTimeout"
    /\ Room_startWith("undefined", "empty", RemoveAt(pending, i))

\* a room before any game is loaded: the game variables are those of a game
\* not yet initialised; the games it loads define no optional hook
InitRoom ==
    /\ GameConstructed
    /\ roomPlayers = <<"p1">>
    /\ hooks = [setup |-> FALSE, handleReadyUp |-> FALSE, handleRoundStart |-> FALSE,
                handleRoundEnd |-> FALSE, handleTurnEnd |-> FALSE]
    /\ \E limit \in {NotGiven} \cup LimitValues :
          RoomConstructed([NoSettings EXCEPT !.player_limit = limit])
    /\ PlaylistConstructed

NextRoom ==
    \/ \E p \in Ids, password \in Passwords : addPlayer(p, password)
    \/ \E p \in Ids : removePlayer(p)
    \/ \E s \in SettingsUpdates : updateSettings(s)
    \/ \E game \in Games : Len(playlist.games) < MaxRoomGames /\ addGame(game)
    \/ \E gameLoader \in Loaders : Room_start(gameLoader, "empty")
    \/ \E i \in 1..Len(pending) : ResultsTimeout(i)
    \/ \E p \in Ids : playerMove(p)
    \/ \E i \in 1..Len(pending), v \in Accepted : HandleMoveResolve(i, v)
    \/ \E i \in 1..Len(pending) : HandleMoveReject(i)
    \/ \E i \in 1..Len(pending), r \in Results : EndResolve(i, r)
    \/ \E i \in 1..Len(pending), val \in Rejections : EndReject(i, val)

SpecRoom == InitRoom /\ [][NextRoom]_vars

\* ------------------------------------------------------------------ claims
HookPending(name) == \E i \in 1..Len(pending) : pending[i].hook = name

\* C1: once a turn is open (turn.number > 0) and endResults is unset, playerMove
\* of any player whose _id differs from turn.player_id is rejected with "You are
\* not allowed to send that right now.", handleMove is not called (no promise is
\* added to pending) and moves, round and turn are unchanged.
C1_Case(p) == turn.number > 0 /\ endResults = Unset /\ p # turn.player_id

C1_NotYourTurn ==
    /\ [](\A p \in Ids : C1_Case(p) => playerMoveResult(p) = NOT_ALLOWED)
    /\ [][\A p \in Ids : (C1_Case(p) /\ playerMove(p))
                            => UNCHANGED <<moves, round, turn, pending>>]_vars

\* a two-player game with a recorded move, the turn of p2 open: p1 is refused
C1_Witness ==
    /\ Len(players) = 2 /\ endResults = Unset /\ Len(moves) = 1
    /\ turn.number = 2 /\ turn.player_id = "p2"
    /\ C1_Case("p1") /\ C1_Case("ghost")

\* C2: whenever endResults is set (onEnd has stored a value other than
\* undefined), playerMove of any player (the turn holder too, and also when
\* turn.number is still 0) is rejected with "Game has ended.", before the
\* other two reasons, and changes nothing.
C2_Ended ==
    /\ [](endResults # Unset => \A p \in Ids : playerMoveResult(p) = ENDED)
    /\ [][\A p \in Ids : (endResults # Unset /\ playerMove(p)) => UNCHANGED vars]_vars

\* C3: while endResults is unset and turn.number is 0, playerMove of any player
\* is rejected with "Game has not started." and no move is recorded.
C3_Case == endResults = Unset /\ turn.number = 0

C3_NotStarted ==
    /\ [](C3_Case => \A p \in Ids : playerMoveResult(p) = NOT_STARTED)
    /\ [][\A p \in Ids : (C3_Case /\ playerMove(p))
                            => UNCHANGED <<moves, round, turn, pending>>]_vars

\* the game was started by the last ready-up and the first round's
\* handleRoundStart has not resolved yet
C3_Witness ==
    /\ C3_Case /\ started /\ round.number = 1 /\ allReady(players)
    /\ HookPending("handleRoundStart")

\* C4: when handleMove resolves with v, the record {player_id: the submitter,
\* round: round.number, turn: turn.number, payload: v} is appended to moves as
\* its last entry, playerMove resolves to that record, and nextTurn runs: it
\* calls handleTurnEnd when the game defines it and otherwise opens the next
\* turn or goes on to the end of the round.
C4_Record(i, v) ==
    [player_id |-> pending[i].who, round |-> round.number, turn |-> turn.number,
     payload |-> v]

C4_NextTurnRan(i) ==
    IF hooks.handleTurnEnd
    THEN /\ pending' = Append(RemoveAt(pending, i),
                              Hook("handleTurnEnd", "", "", 0, <<"T">>))
         /\ UNCHANGED <<round, turn>>
    ELSE IF turn.number < Len(playerOrder)
    THEN /\ turn' = [number |-> turn.number + 1, player_id |-> playerOrder[turn.number + 1]]
         /\ round' = round
         /\ pending' = RemoveAt(pending, i)
    ELSE \/ Len(pending') = Len(pending)          \* handleRoundEnd, handleEnd, handleRoundStart
         \/ /\ round'.number = round.number + 1
            /\ turn'.number = 1

C4_MoveAccepted ==
    [][\A i \in 1..Len(pending) : \A v \in Accepted :
          (pending[i].hook = "handleMove" /\ HandleMoveResolve(i, v))
             => /\ moves' = Append(moves, C4_Record(i, v))
                /\ resolved' = Append(resolved, C4_Record(i, v))
                /\ C4_NextTurnRan(i)]_vars

\* p1 moved in turn 1 of round 1 and the turn went on to p2
C4_Witness ==
    /\ moves = <<[player_id |-> "p1", round |-> 1, turn |-> 1, payload |-> "accepted"]>>
    /\ resolved = moves
    /\ turn = [number |-> 2, player_id |-> "p2"]

\* C5: with ready-up required (a setup hook whose settings do not carry
\* readyUp === false) and N players, started is false as long as fewer than N
\* distinct players have readied up and becomes true in the step of the N-th;
\* right after that step round.number is 1 and turn.number is 1 with
\* turn.player_id the first entry of playerOrder.
ReadyUpRequired == hooks.setup /\ settings.readyUp # "false"

ReadyCount == Cardinality({k \in 1..Len(players) : players[k].ready})

FirstInOrderPlays == \E k \in 1..Len(players) : players[k]._id = OrderAt(1)

C5_StartedIffAllReady ==
    ReadyUpRequired => (started <=> (inited /\ ReadyCount = Len(players)))

C5_LastReadyStep == ReadyUpRequired' /\ ~started /\ started'

\* the claim as stated: turn 1 is open right after the step
C5_Original ==
    [][C5_LastReadyStep => /\ round'.number = 1
                           /\ turn'.number = 1
                           /\ turn'.player_id = playerOrder'[1]]_vars

\* the claim as amended: round 1 is set in that step; turn 1 is opened in that
\* step only when the game defines no handleRoundStart, otherwise
\* handleRoundStart was called and turn.number is still 0
C5_StartOnLastReady ==
    /\ []C5_StartedIffAllReady
    /\ [][C5_LastReadyStep =>
            /\ ReadyCount' = Len(players') /\ ReadyCount = Len(players) - 1
            /\ round'.number = 1
            /\ IF hooks.handleRoundStart
               THEN /\ turn'.number = 0
                    /\ \E i \in 1..Len(pending') :
                          pending'[i] = Hook("handleRoundStart", "", "", 1, <<>>)
               ELSE FirstInOrderPlays =>
                       turn' = [number |-> 1, player_id |-> playerOrder'[1]]]_vars

\* two players readied up, the game started with the second, turn 1 is open
C5_Witness ==
    /\ ReadyUpRequired /\ Len(players) = 2 /\ ReadyCount = 2 /\ started
    /\ round.number = 1 /\ turn.number = 1 /\ turn.player_id = playerOrder[1]
    /\ moves = <<>>

\* C6: init starts the game at once (started, round 1, turn 1, no ready-up)
\* exactly when there is no setup hook or the settings setup returns or
\* resolves with carry readyUp === false; otherwise started stays false and
\* turn.number 0 until every player has readied up.
C6_StartsAtOnce(g) == ~hooks.setup \/ g = "readyUpFalse"

C6_RoundOneBegun ==
    /\ started'
    /\ round'.number = 1
    /\ IF hooks.handleRoundStart
       THEN /\ turn' = turn
            /\ \E i \in 1..Len(pending') :
                  pending'[i] = Hook("handleRoundStart", "", "", 1, <<>>)
       ELSE FirstInOrderPlays => turn' = [number |-> 1, player_id |-> playerOrder'[1]]

C7_WinEndsGame ==
    /\ [][\A i \in 1..Len(pending) :
            (pending[i].hook = "handleTurnEnd" /\ TurnEndReject(i, WinPayload))
               => /\ pending' = Append(RemoveAt(pending, i),
                                       Hook("handleEnd", "", WinPayload, 0, <<>>))
                  /\ UNCHANGED <<round, turn, moves, endResults>>]_vars
    /\ [][\A i \in 1..Len(pending) : \A r \in Results :
            (pending[i].hook = "handleEnd" /\ EndResolve(i, r))
               => endResults' = r /\ UNCHANGED <<round, turn, moves>>]_vars
    /\ [](endEmits > 0 => \A p \in Ids : playerMoveResult(p) = ENDED)

\* the game ended in round 1 after one move, on a win that handleTurnEnd
\* signalled (no maxRounds, so nothing else calls onEnd)
C7_Witness ==
    /\ endEmits = 1 /\ hooks.handleTurnEnd /\ maxRounds = 0
    /\ Len(moves) = 1 /\ round.number = 1 /\ turn.number = 1 /\ pending = <<>>

\* C8: endResults is assigned at most once (once set it never changes) and
\* 'game/end' and 'end' are emitted at most once.
C8_EndsOnce ==
    [][/\ endResults # Unset => endResults' = endResults
       /\ endEmits' <= 1]_vars

\* C9: once endResults is set, moves, round and turn never change again.
C9_Terminal ==
    [][endResults # Unset => UNCHANGED <<moves, round, turn>>]_vars

\* C10: a turn admits one move: while the result of a hook is pending no
\* further playerMove is handed to handleMove, and no move is recorded while
\* handleTurnEnd, handleRoundEnd or handleRoundStart of an earlier move is
\* pending.
C10_TurnHooks == {"handleTurnEnd", "handleRoundEnd", "handleRoundStart"}

C10_OneMovePerTurn ==
    /\ [][\A p \in Ids : (pending # <<>> /\ playerMove(p)) => pending' = pending]_vars
    /\ [][moves' # moves => \A i \in 1..Len(pending) : pending[i].hook \notin C10_TurnHooks]_vars

\* C11: when handleTurnEnd rejects with an Error, advancement proceeds as if it
\* had resolved: the turn moves on to turn.number + 1, or the round advances
\* (handleRoundEnd is called, the next round starts or the end sequence runs)
\* when that exceeds the length of playerOrder; endResults stays unset.
C11_RoundAdvanced ==
    \/ \E j \in 1..Len(pending') : pending'[j].hook \in {"handleRoundEnd", "handleEnd"}
    \/ round'.number = round.number + 1

C11_ErrorStillAdvances ==
    [][\A i \in 1..Len(pending) :
          (pending[i].hook = "handleTurnEnd" /\ TurnEndReject(i, ErrorPayload))
             => /\ endResults' = endResults
                /\ IF turn.number + 1 <= Len(playerOrder)
                   THEN turn'.number = turn.number + 1
                   ELSE C11_RoundAdvanced]_vars

\* C12: when handleRoundEnd rejects at the end of round n, round n is restarted:
\* round.number stays n, the turn is reset to number 1 with player_id =
\* playerOrder[0], and neither the end sequence nor round n+1 is started; when
\* it resolves (or the hook is absent) round n+1 is started unless maxRounds
\* is exceeded.
C12_EndCalls(pnd) == Cardinality({j \in 1..Len(pnd) : pnd[j].hook = "handleEnd"})

C12_LimitReached == maxRounds # 0 /\ round.number + 1 > maxRounds

\* the claim as stated: the turn is reset in the step of the rejection
C12_Original ==
    [][\A i \in 1..Len(pending) : \A val \in Rejections :
          (pending[i].hook = "handleRoundEnd" /\ RoundEndReject(i, val))
             => /\ round'.number = round.number
                /\ turn' = [number |-> 1, player_id |-> playerOrder[1]]]_vars

C12_NextRoundOrEnd ==
    IF C12_LimitReached
    THEN round' = round /\ C12_EndCalls(pending') = C12_EndCalls(pending) + 1
    ELSE round'.number = round.number + 1 /\ C12_EndCalls(pending') = C12_EndCalls(pending)

\* the claim as amended: the turn is reset in that step when the game defines
\* no handleRoundStart; otherwise handleRoundStart is called for round n and
\* the turn is left as it is until that hook resolves
C12_RestartSameRound ==
    /\ [][\A i \in 1..Len(pending) : \A val \in Rejections :
            (pending[i].hook = "handleRoundEnd" /\ RoundEndReject(i, val))
               => /\ round'.number = round.number
                  /\ endResults' = endResults
                  /\ C12_EndCalls(pending') = C12_EndCalls(pending)
                  /\ IF hooks.handleRoundStart
                     THEN /\ turn' = turn
                          /\ \E j \in 1..Len(pending') :
                                /\ pending'[j].hook = "handleRoundStart"
                                /\ pending'[j].num = round.number
                     ELSE turn' = [number |-> 1, player_id |-> playerOrder[1]]]_vars
    /\ [][\A i \in 1..Len(pending) :
            (pending[i].hook = "handleRoundEnd" /\ RoundEndResolve(i))
               => C12_NextRoundOrEnd]_vars
    /\ [][\A i \in 1..Len(pending) : \A v \in Accepted :
            (/\ pending[i].hook = "handleMove" /\ HandleMoveResolve(i, v)
             /\ ~hooks.handleTurnEnd /\ ~hooks.handleRoundEnd
             /\ turn.number + 1 > Len(playerOrder))
               => C12_NextRoundOrEnd]_vars

\* both players moved in round 1, handleRoundEnd rejected, round 1 runs again
C12_Witness ==
    /\ hooks.handleRoundEnd /\ ~hooks.handleRoundStart /\ ~hooks.setup
    /\ Len(players) = 2 /\ Len(moves) = 2 /\ moves[2].round = 1 /\ moves[2].turn = 2
    /\ round.number = 1 /\ turn = [number |-> 1, player_id |-> playerOrder[1]]
    /\ pending = <<>> /\ endResults = Unset

\* C13: with maxRounds set to a positive number M, round.number never exceeds
\* M, and when the last turn of round M completes (handleRoundEnd absent or
\* resolving) the end sequence is invoked (handleEnd is called) instead of
\* round M+1 being started.
C13_LastTurnOfLastRound ==
    /\ maxRounds > 0 /\ round.number = maxRounds
    /\ turn.number + 1 > Len(playerOrder)

C13_EndInvoked ==
    /\ round' = round /\ turn' = turn
    /\ Len(pending') = Len(pending)
    /\ pending'[Len(pending')].hook = "handleEnd"

C13_MaxRounds ==
    /\ [](maxRounds > 0 => round.number <= maxRounds)
    /\ [][\A i \in 1..Len(pending) :
            (/\ pending[i].hook = "handleRoundEnd" /\ RoundEndResolve(i)
             /\ maxRounds > 0 /\ round.number = maxRounds)
               => C13_EndInvoked]_vars
    /\ [][\A i \in 1..Len(pending) :
            (/\ pending[i].hook = "handleTurnEnd" /\ TurnEndResolve(i)
             /\ ~hooks.handleRoundEnd /\ C13_LastTurnOfLastRound)
               => C13_EndInvoked]_vars
    /\ [][\A i \in 1..Len(pending) : \A v \in Accepted :
            (/\ pending[i].hook = "handleMove" /\ HandleMoveResolve(i, v)
             /\ ~hooks.handleTurnEnd /\ ~hooks.handleRoundEnd
             /\ C13_LastTurnOfLastRound)
               => C13_EndInvoked]_vars

\* two players played the only round allowed and the game ended in round 1
C13_Witness ==
    /\ maxRounds = 1 /\ Len(players) = 2 /\ Len(moves) = 2 /\ moves[2].turn = 2
    /\ round.number = 1 /\ turn.number = 2 /\ endEmits = 1
    /\ ~hooks.handleTurnEnd

\* C14: when a turn is started at index k and playerOrder[k-1] names no
\* player, that index is skipped without handleTurnEnd and the turn at index
\* k+1 is started (or the round advances when k is the last index); the skip
\* ends, and the game then waits on a turn whose holder exists, or has ended.
\* Stated for the first turn of the game: when the game starts, no
\* handleRoundStart is defined and some entry of playerOrder names a player,
\* the turn after the step is the first such entry.
C14_Plays(k) == \E j \in 1..Len(players') : players'[j]._id = playerOrder[k]

C14_HasHolder == \E k \in 1..Len(playerOrder) : C14_Plays(k)

C14_FirstHolder ==
    CHOOSE k \in 1..Len(playerOrder) :
        C14_Plays(k) /\ \A j \in 1..(k - 1) : ~C14_Plays(j)

C14_SkipReachesHolder ==
    [][(~started /\ started' /\ ~hooks.handleRoundStart /\ C14_HasHolder)
          => turn' = [number |-> C14_FirstHolder,
                      player_id |-> playerOrder[C14_FirstHolder]]]_vars

\* C15: in every reachable state with turn.number > 0, turn.player_id equals
\* playerOrder[turn.number - 1], also after setPlayerTurnOrder was called
\* during the game.
C15_HolderFollowsOrder ==
    turn.number > 0 => turn.player_id = OrderAt(turn.number)

\* C16: moves is append-only: in every step the previous moves is a prefix of
\* the new one, its length grows by exactly one in a step where a handleMove
\* promise resolves (an accepted move) and by zero in every other step; no
\* entry is changed, reordered or removed.
C16_IsPrefix(old, new) ==
    Len(old) <= Len(new) /\ \A k \in 1..Len(old) : new[k] = old[k]

C16_AppendOnly ==
    /\ [][C16_IsPrefix(moves, moves') /\ Len(moves') <= Len(moves) + 1]_vars
    /\ [][\A i \in 1..Len(pending) : \A v \in Accepted :
            (pending[i].hook = "handleMove" /\ HandleMoveResolve(i, v))
               => Len(moves') = Len(moves) + 1]_vars
    /\ [][moves' # moves
            => \E i \in 1..Len(pending) : \E v \in Accepted :
                  pending[i].hook = "handleMove" /\ HandleMoveResolve(i, v)]_vars

\* two accepted moves, the second appended behind the first, round 2 begun
C16_Witness ==
    /\ Len(moves) = 2 /\ resolved = moves
    /\ moves[1].player_id = "p1" /\ moves[1].turn = 1
    /\ moves[2].player_id = "p2" /\ moves[2].turn = 2
    /\ round.number = 2 /\ turn.number = 1

\* C17: for any two consecutive entries a, b of moves, (a.round, a.turn) is
\* lexicographically less than or equal to (b.round, b.turn), over every
\* sequence of moves, turn and round advancements and round restarts.
C17_NotAfter(a, b) ==
    a.round < b.round \/ (a.round = b.round /\ a.turn <= b.turn)

C17_StampsNonDecreasing ==
    \A k \in 1..(Len(moves) - 1) : C17_NotAfter(moves[k], moves[k + 1])

\* C18: round.number starts at 0 and in every step either stays the same (a
\* round restart included) or increases by exactly 1: it never decreases and
\* never skips a number, over every interleaving of init, ready-ups, moves and
\* hook resolutions.
C18_RoundSteps ==
    /\ [](~inited => round.number = 0)
    /\ [][round'.number = round.number \/ round'.number = round.number + 1]_vars

\* C19: a rule rejection is handed on verbatim and leaves the state untouched:
\* when handleMove rejects with reason r, playerMove rejects with r and moves,
\* round, turn, started and endResults are unchanged; when handleReadyUp
\* rejects with r, readyUp rejects with r, the ready flags stay as they were
\* (executeReady does not run, so nothing is broadcast) and the game is not
\* started by that submission.
C19_RuleRejection ==
    /\ [](\A r \in Reasons : playerMoveRejection(r) = r /\ readyUpRejection(r) = r)
    /\ [][\A i \in 1..Len(pending) :
            (pending[i].hook = "handleMove" /\ HandleMoveReject(i))
               => /\ UNCHANGED <<moves, round, turn, started, endResults, resolved>>
                  /\ pending' = RemoveAt(pending, i)]_vars
    /\ [][\A i \in 1..Len(pending) :
            (pending[i].hook = "handleReadyUp" /\ ReadyReject(i))
               => /\ UNCHANGED <<players, started, round, turn, moves, endResults>>
                  /\ pending' = RemoveAt(pending, i)]_vars

\* the last player not yet ready is being judged by handleReadyUp; a rejection
\* now leaves that player unready and the game not started
C19_Witness ==
    /\ Len(players) = 2 /\ players[1].ready /\ ~players[2].ready /\ ~started
    /\ pending = <<Hook("handleReadyUp", "p2", "", 0, <<>>)>>

\* C20: a ready submission is validated before the rule set is consulted: if
\* the game has started or the player's ready flag is already true, readyUp
\* returns false without calling handleReadyUp and without changing any
\* state; a submission whose id matches no player fails as well (it returns
\* false or throws) without changing state.
C20_IsPlayer(id) == \E k \in 1..Len(players) : players[k]._id = id

C20_IsReady(id) == \E k \in 1..Len(players) : players[k]._id = id /\ players[k].ready

C20_ReadyValidated ==
    /\ [](\A id \in Ids : \A h \in ReadyReturns :
            /\ (started \/ C20_IsReady(id)) => readyUpResult(id, h) = "false"
            /\ ~C20_IsPlayer(id) => readyUpResult(id, h) \in {"false", "TypeError"})
    /\ [][\A id \in Ids : \A h \in ReadyReturns :
            ((started \/ C20_IsReady(id) \/ ~C20_IsPlayer(id)) /\ readyUp(id, h))
               => UNCHANGED vars]_vars

\* p1 is ready, p2 is not, the game has not started and defines handleReadyUp:
\* a second readyUp of p1 and a readyUp of "ghost" are the submissions at issue
C20_Witness ==
    /\ hooks.handleReadyUp /\ inited /\ ~started /\ pending = <<>>
    /\ Len(players) = 2 /\ C20_IsReady("p1") /\ ~C20_IsReady("p2")
    /\ ~C20_IsPlayer("ghost")

\* C21: for a valid ready submission (game not started, the id names a player
\* who is not ready yet) the ready flag is set whenever handleReadyUp is
\* absent, returns a truthy value or void, or returns a promise that resolves;
\* the caller receives true when the hook is absent and otherwise what the
\* hook returned or resolved with.
C21_Valid(id) == inited /\ ~started /\ C20_IsPlayer(id) /\ ~C20_IsReady(id)

C21_SetsFlagAtOnce == {"truthy", "undefined"}

C21_ReadyAcknowledged ==
    /\ [](\A id \in Ids : \A h \in C21_SetsFlagAtOnce :
            C21_Valid(id)
               => readyUpResult(id, h) = IF hooks.handleReadyUp THEN h ELSE "true")
    /\ [][\A id \in Ids : \A h \in C21_SetsFlagAtOnce :
            (C21_Valid(id) /\ readyUp(id, h)
             /\ readyUpResult(id, h) \in {"true"} \cup C21_SetsFlagAtOnce)
               => \E k \in 1..Len(players') : players'[k]._id = id /\ players'[k].ready]_vars
    /\ [][\A i \in 1..Len(pending) :
            (pending[i].hook = "handleReadyUp" /\ ReadyResolve(i))
               => \E k \in 1..Len(players') :
                     players'[k]._id = pending[i].who /\ players'[k].ready]_vars

\* C22: for every explicit array of player ids passed to setPlayerTurnOrder,
\* playerOrder afterwards is exactly that array, and no other field of the
\* game (players, round, turn, moves, started, ...) is changed by the call.
C22_ExplicitOrder ==
    [][\A order \in AnyOrders :
          setPlayerTurnOrder(order)
             => /\ playerOrder' = order
                /\ UNCHANGED <<players, round, turn, moves, started, settings,
                               endResults, pending, resolved>>]_vars

\* the order was reversed before the game started
C22_Witness ==
    /\ inited /\ ~started /\ Len(players) = 2
    /\ playerOrder = <<"p2", "p1">> /\ PlayerIds = <<"p1", "p2">>

\* C23: a randomized order request sets playerOrder to a permutation of the
\* ids of the current players for every choice of the random indices in
\* shuffle, every permutation is a possible outcome, and the players list
\* keeps its roster order; a default request sets playerOrder to the ids in
\* roster order.
C23_Count(seq, x) == Cardinality({k \in 1..Len(seq) : seq[k] = x})

C23_Elements(seq) == {seq[k] : k \in 1..Len(seq)}

C23_Permutations(arr) ==
    {s \in [1..Len(arr) -> C23_Elements(arr)] :
        \A x \in C23_Elements(arr) : C23_Count(s, x) = C23_Count(arr, x)}

C23_Arrays == {[k \in 1..n |-> k] : n \in 0..MaxShuffleLen}

C23_RandomOrder ==
    /\ [](\A arr \in C23_Arrays : shuffle(arr) = C23_Permutations(arr))
    /\ [](shuffle(players) = C23_Permutations(players))
    /\ [][\A sh \in C23_Permutations(players) :
            setPlayerTurnOrderRandom(sh)
               => /\ playerOrder' = [k \in 1..Len(sh) |-> sh[k]._id]
                  /\ players' = players]_vars
    /\ [][setPlayerTurnOrderDefault
            => /\ playerOrder' = [k \in 1..Len(players) |-> players[k]._id]
               /\ players' = players]_vars

\* during the game the order is the reverse of the roster, which is unchanged
C23_Witness ==
    /\ started /\ turn.number = 1 /\ Len(players) = 2
    /\ [k \in 1..2 |-> players[k]._id] = <<"p1", "p2">>
    /\ playerOrder = <<"p2", "p1">>

\* C24: removePlayer(p) removes exactly the player p from the room, every other
\* member staying in the same relative order, and a removePlayer of somebody
\* who is not a member is rejected with "Not in room." and leaves the roster
\* unchanged.
C24_Without(seq, p) == SelectSeq(seq, LAMBDA q : q # p)

C24_Member(p) == \E k \in 1..Len(room.players) : room.players[k] = p

C24_RemovesExactlyThatPlayer ==
    /\ [](\A p \in Ids : ~C24_Member(p) => removePlayerResult(p) = NOT_IN_ROOM)
    /\ [][\A p \in Ids :
            removePlayer(p) => room'.players = C24_Without(room.players, p)]_vars

\* C25: whenever the room already holds at least settings.player_limit
\* players, addPlayer is rejected with "Room is full." and leaves the roster
\* unchanged; so no join raises players.length above settings.player_limit,
\* whatever addPlayer, removePlayer and updateSettings calls came before.
C25_FullRoomAdmitsNobody ==
    /\ [](\A p \in Ids, password \in Passwords :
            Len(room.players) >= room.player_limit
               => addPlayerResult(p, password) = FULL)
    /\ [][\A p \in Ids, password \in Passwords :
            (addPlayer(p, password) /\ Len(room'.players) > Len(room.players))
               => Len(room'.players) <= room.player_limit]_vars

\* C26: a game is started at most once: once started is set, no late setup
\* resolution and no late or duplicate ready-up runs start() / startRound(1)
\* again, so a game that has reached a later round is never taken back to
\* round 1.
C26_StartsAgain ==
    \/ \E i \in 1..Len(pending) : SetupResolve(i, "readyUpFalse")
    \/ \E i \in 1..Len(pending) :
          /\ pending[i].hook = "handleReadyUp"
          /\ allReady(markReady(players, pending[i].who))
          /\ ReadyResolve(i)
    \/ \E id \in Ids, h \in {"truthy"} :
          /\ readyUpResult(id, h) \in {"true", "truthy"}
          /\ allReady(markReady(players, id))
          /\ readyUp(id, h)

C26_StartedOnce ==
    /\ [][started => ~C26_StartsAgain]_vars
    /\ [][(started /\ round.number > 1) => round'.number > 1]_vars

\* C27: every recorded move is attributed to the holder of the turn it is
\* stamped with: when handleMove resolves and the entry is appended to moves,
\* its player_id is turn.player_id and its round and turn are the round and
\* turn that player holds, also when turns advanced while handleMove was
\* pending.
C27_AttributedToTurnHolder ==
    [][\A i \in 1..Len(pending) : \A v \in Accepted :
          HandleMoveResolve(i, v)
             => /\ moves' = Append(moves, moves'[Len(moves')])
                /\ moves'[Len(moves')].player_id = turn.player_id
                /\ moves'[Len(moves')].round = round.number
                /\ moves'[Len(moves')].turn = turn.number]_vars

\* C28: over any interleaving of add and next, games.length never exceeds 10
\* (add returns false and adds nothing at 10); next() returns the added games
\* in insertion order, each exactly once, and false whenever no unplayed game
\* remains; a game added after next() reported the end is returned by a later
\* next().
C28_Played == SelectSeq(served, LAMBDA g : g \in Games)

C28_Due ==
    IF Len(C28_Played) < Len(playlist.games)
    THEN playlist.games[Len(C28_Played) + 1]
    ELSE "false"

C28_PlaysEveryGameOnce ==
    /\ [](Len(playlist.games) <= PlaylistLimit)
    /\ [](Len(playlist.games) = PlaylistLimit => addResult = "false")
    /\ [][\A game \in Games :
            (add(game) /\ Len(playlist.games) = PlaylistLimit) => playlist' = playlist]_vars
    /\ [][next => served' = Append(served, C28_Due)]_vars

====
